---- MODULE Spec2Model ----
(***************************************************************************)
(* Model of stock_valuation_app.py: the provider field fallbacks, the      *)
(* CAPM discount rate, the EPS-based and the OCF-based valuation and the   *)
(* Streamlit script that drives them.  Line 1 of the file is a shell       *)
(* command, not Python; the model covers the program from line 2 on.       *)
(*                                                                         *)
(* Numbers.  Python floats are modelled as exact rationals.                *)
(*   - A rate (growth, discount, terminal growth) is an integer number of  *)
(*     1/RateScale; a beta is an integer number of 1/BetaScale.            *)
(*   - A product of powers (a projected or discounted value) is a          *)
(*     factored rational: a sign and a map prime -> non-zero exponent.     *)
(*     The form is canonical, so equality of values is equality of terms.  *)
(*   - A sum is an expanded rational: a signed big numerator (limbs of     *)
(*     base LimbBase, least significant first) over a factored             *)
(*     denominator.                                                        *)
(***************************************************************************)
EXTENDS Integers, Sequences, FiniteSets, TLC

(***************************************************************************)
(* Big naturals: sequences of limbs, least significant first, no leading   *)
(* zero limb; <<>> is zero.                                                *)
(***************************************************************************)
LimbBase == 10000
ChunkLimit == 200000

\* Forces the evaluation of v before w is used (operator arguments are
\* otherwise evaluated on demand, deep inside the recursion).
Strict(v, w) == IF v = v THEN w ELSE w

RECURSIVE BigMulSmallFrom(_, _, _, _)
BigMulSmallFrom(a, k, i, carry) ==
  IF i > Len(a)
    THEN IF carry = 0 THEN <<>>
         ELSE <<carry % LimbBase>> \o BigMulSmallFrom(a, k, i, carry \div LimbBase)
    ELSE LET v == a[i] * k + carry
         IN <<v % LimbBase>> \o BigMulSmallFrom(a, k, i + 1, v \div LimbBase)

\* a * k for 0 <= k <= ChunkLimit
BigMulSmall(a, k) == IF k = 0 \/ a = <<>> THEN <<>> ELSE BigMulSmallFrom(a, k, 1, 0)

RECURSIVE BigAddFrom(_, _, _, _)
BigAddFrom(a, b, i, carry) ==
  IF i > Len(a) /\ i > Len(b)
    THEN IF carry = 0 THEN <<>> ELSE <<carry>>
    ELSE LET v == (IF i <= Len(a) THEN a[i] ELSE 0)
                  + (IF i <= Len(b) THEN b[i] ELSE 0) + carry
         IN <<v % LimbBase>> \o BigAddFrom(a, b, i + 1, v \div LimbBase)

BigAdd(a, b) == BigAddFrom(a, b, 1, 0)

RECURSIVE BigCmpFrom(_, _, _)
BigCmpFrom(a, b, i) ==
  IF i = 0 THEN 0
  ELSE IF a[i] < b[i] THEN -1
  ELSE IF a[i] > b[i] THEN 1
  ELSE BigCmpFrom(a, b, i - 1)

\* -1, 0 or 1 as a < b, a = b or a > b
BigCmp(a, b) ==
  IF Len(a) < Len(b) THEN -1
  ELSE IF Len(a) > Len(b) THEN 1
  ELSE BigCmpFrom(a, b, Len(a))

RECURSIVE BigTrim(_)
BigTrim(a) ==
  IF a # <<>> /\ a[Len(a)] = 0 THEN BigTrim(SubSeq(a, 1, Len(a) - 1)) ELSE a

RECURSIVE BigSubFrom(_, _, _, _)
BigSubFrom(a, b, i, borrow) ==
  IF i > Len(a) THEN <<>>
  ELSE LET v == a[i] - (IF i <= Len(b) THEN b[i] ELSE 0) - borrow
       IN IF v < 0 THEN <<v + LimbBase>> \o BigSubFrom(a, b, i + 1, 1)
                   ELSE <<v>> \o BigSubFrom(a, b, i + 1, 0)

\* a - b for a >= b
BigSub(a, b) == BigTrim(BigSubFrom(a, b, 1, 0))

RECURSIVE BigMulPow(_, _, _)
\* a * k^n for 0 < k <= ChunkLimit
BigMulPow(a, k, n) ==
  IF n = 0 THEN a
  ELSE LET nxt == BigMulSmall(a, k) IN Strict(nxt, BigMulPow(nxt, k, n - 1))

BigOfNat(n) == IF n = 0 THEN <<>> ELSE BigMulSmall(<<1>>, n)

RECURSIVE BigToNatFrom(_, _)
BigToNatFrom(a, i) == IF i > Len(a) THEN 0 ELSE a[i] + LimbBase * BigToNatFrom(a, i + 1)

\* the value of a, for a < LimbBase^2
BigToNat(a) == BigToNatFrom(a, 1)

\* the largest q in lo..hi with q * d <= r (lo qualifies)
RECURSIVE BigDigit(_, _, _, _)
BigDigit(r, d, lo, hi) ==
  IF lo = hi THEN lo
  ELSE LET mid == (lo + hi + 1) \div 2
       IN IF BigCmp(BigMulSmall(d, mid), r) <= 0
            THEN BigDigit(r, d, mid, hi)
            ELSE BigDigit(r, d, lo, mid - 1)

\* long division of n by d > 0, from limb i of n down: <<quotient, remainder>>
RECURSIVE BigDivModFrom(_, _, _, _, _)
BigDivModFrom(n, d, i, q, r) ==
  IF i = 0 THEN <<q, r>>
  ELSE LET r1 == BigTrim(<<n[i]>> \o r)
           dg == IF BigCmp(r1, d) < 0 THEN 0 ELSE BigDigit(r1, d, 1, LimbBase - 1)
           r2 == IF dg = 0 THEN r1 ELSE BigSub(r1, BigMulSmall(d, dg))
           q1 == BigTrim(<<dg>> \o q)
       IN Strict(<<r2, q1>>, BigDivModFrom(n, d, i - 1, q1, r2))

BigDivMod(n, d) == BigDivModFrom(n, d, Len(n), <<>>, <<>>)

(***************************************************************************)
(* Factored rationals: [s |-> -1, 0 or 1, e |-> prime -> non-zero          *)
(* exponent]; the value is s * PRODUCT p^e[p].                             *)
(***************************************************************************)
NoExp == [p \in {} |-> 0]

ExpGet(e, p) == IF p \in DOMAIN e THEN e[p] ELSE 0

ExpNorm(f) == [p \in {q \in DOMAIN f : f[q] # 0} |-> f[p]]

ExpAdd(e1, e2) == ExpNorm([p \in DOMAIN e1 \cup DOMAIN e2 |-> ExpGet(e1, p) + ExpGet(e2, p)])

ExpScale(e, k) == ExpNorm([p \in DOMAIN e |-> e[p] * k])

ExpMax(e1, e2) ==
  [p \in DOMAIN e1 \cup DOMAIN e2 |->
     IF ExpGet(e1, p) >= ExpGet(e2, p) THEN ExpGet(e1, p) ELSE ExpGet(e2, p)]

\* the positive part of e, and the negative part with its sign dropped
ExpNum(e) == [p \in {q \in DOMAIN e : e[q] > 0} |-> e[p]]
ExpDen(e) == [p \in {q \in DOMAIN e : e[q] < 0} |-> 0 - e[p]]

RECURSIVE FactorFrom(_, _, _)
FactorFrom(n, p, e) ==
  IF n = 1 THEN e
  ELSE IF p * p > n THEN ExpAdd(e, [q \in {n} |-> 1])
  ELSE IF n % p = 0 THEN FactorFrom(n \div p, p, ExpAdd(e, [q \in {p} |-> 1]))
  ELSE FactorFrom(n, p + 1, e)

\* the prime factorisation of n >= 1
Factor(n) == FactorFrom(n, 2, NoExp)

Abs(n) == IF n < 0 THEN 0 - n ELSE n

QZero == [s |-> 0, e |-> NoExp]
QOne == [s |-> 1, e |-> NoExp]

QOfInt(n) ==
  IF n = 0 THEN QZero ELSE [s |-> IF n < 0 THEN -1 ELSE 1, e |-> Factor(Abs(n))]

QMul(a, b) ==
  IF a.s = 0 \/ b.s = 0 THEN QZero ELSE [s |-> a.s * b.s, e |-> ExpAdd(a.e, b.e)]

\* 1 / a, for a # 0
QInv(a) == [s |-> a.s, e |-> ExpScale(a.e, -1)]

\* a / b, for b # 0
QDiv(a, b) == QMul(a, QInv(b))

\* a ** n for an integer n >= 0 (0 ** 0 is 1, as in Python)
QPow(a, n) ==
  IF n = 0 THEN QOne
  ELSE IF a.s = 0 THEN QZero
  ELSE [s |-> IF n % 2 = 0 THEN 1 ELSE a.s, e |-> ExpScale(a.e, n)]

\* the fraction a / b of two integers, b # 0
QFrac(a, b) == QDiv(QOfInt(a), QOfInt(b))

(***************************************************************************)
(* Expanded rationals: [neg, mag, den], the value is (-1)^neg * mag over   *)
(* PRODUCT p^den[p]; zero has neg = FALSE.  Not reduced: compare with ECmp. *)
(***************************************************************************)
RECURSIVE IntPow(_, _)
IntPow(b, n) == IF n = 0 THEN 1 ELSE b * IntPow(b, n - 1)

\* the largest j >= 1 with p^j <= ChunkLimit, for a prime p <= ChunkLimit
RECURSIVE ChunkExp(_, _)
ChunkExp(p, j) == IF IntPow(p, j + 1) > ChunkLimit THEN j ELSE ChunkExp(p, j + 1)

\* b * p^k
BigMulPrimePow(b, p, k) ==
  LET j == ChunkExp(p, 1)
      full == BigMulPow(b, IntPow(p, j), k \div j)
  IN Strict(full, BigMulSmall(full, IntPow(p, k % j)))

\* b * PRODUCT p^e[p] over the primes ps, for positive exponents e
RECURSIVE BigMulExp(_, _, _)
BigMulExp(b, e, ps) ==
  IF ps = {} THEN b
  ELSE LET p == CHOOSE q \in ps : \A r \in ps : q <= r
           nxt == BigMulPrimePow(b, p, e[p])
       IN Strict(nxt, BigMulExp(nxt, e, ps \ {p}))

Expand(b, e) == BigMulExp(b, e, DOMAIN e)

EZero == [neg |-> FALSE, mag |-> <<>>, den |-> NoExp]

EOfQ(q) ==
  IF q.s = 0 THEN EZero
  ELSE [neg |-> q.s < 0, mag |-> Expand(<<1>>, ExpNum(q.e)), den |-> ExpDen(q.e)]

EOfInt(n) == [neg |-> n < 0, mag |-> BigOfNat(Abs(n)), den |-> NoExp]

\* the numerator of a over the denominator l, a multiple of a.den
ELift(a, l) == Expand(a.mag, ExpAdd(l, ExpScale(a.den, -1)))

ENeg(a) == IF a.mag = <<>> THEN a ELSE [a EXCEPT !.neg = ~a.neg]

EAdd(a, b) ==
  LET l == ExpMax(a.den, b.den)
      ma == ELift(a, l)
      mb == ELift(b, l)
      c == BigCmp(ma, mb)
  IN IF a.neg = b.neg
       THEN [neg |-> a.neg /\ ma # <<>>, mag |-> BigAdd(ma, mb), den |-> l]
     ELSE IF c = 0 THEN [neg |-> FALSE, mag |-> <<>>, den |-> l]
     ELSE IF c > 0 THEN [neg |-> a.neg, mag |-> BigSub(ma, mb), den |-> l]
     ELSE [neg |-> b.neg, mag |-> BigSub(mb, ma), den |-> l]

ESub(a, b) == EAdd(a, ENeg(b))

\* a * q for a factored rational q
EMulQ(a, q) ==
  IF q.s = 0 \/ a.mag = <<>> THEN [EZero EXCEPT !.den = a.den]
  ELSE [neg |-> (a.neg # (q.s < 0)),
        mag |-> Expand(a.mag, ExpNum(q.e)),
        den |-> ExpAdd(a.den, ExpDen(q.e))]

\* -1, 0 or 1: the sign of a
ESign(a) == IF a.mag = <<>> THEN 0 ELSE IF a.neg THEN -1 ELSE 1

\* -1, 0 or 1 as a < b, a = b or a > b
ECmp(a, b) == ESign(ESub(a, b))

\* sum(xs) for a list of factored rationals: 0 + xs[1] + xs[2] + ...
RECURSIVE ESumFrom(_, _, _)
ESumFrom(xs, i, acc) ==
  IF i > Len(xs) THEN acc
  ELSE LET nxt == EAdd(acc, EOfQ(xs[i])) IN Strict(nxt, ESumFrom(xs, i + 1, nxt))

ESum(xs) == ESumFrom(xs, 1, EZero)

\* round(a, 2), in hundredths: the nearest integer to 100 * a, ties to even
ERound2(a) ==
  LET d == Expand(<<1>>, a.den)
      qr == BigDivMod(BigMulSmall(a.mag, 100), d)
      q == BigToNat(qr[1])
      c == BigCmp(BigMulSmall(qr[2], 2), d)
      up == c > 0 \/ (c = 0 /\ q % 2 = 1)
      r == IF up THEN q + 1 ELSE q
  IN IF a.neg THEN 0 - r ELSE r

(***************************************************************************)
(* Program constants.  Rates are in units of 1/RateScale (0.005), betas in *)
(* units of 1/BetaScale (0.2).                                             *)
(***************************************************************************)
RateScale == 200
BetaScale == 5

TERMINAL_GROWTH_RATE == 8
FORECAST_YEARS == 20
RISK_FREE_RATE == 9
MARKET_RISK_PREMIUM == 5

DefaultGrowthRate == 20
OcfDefaultGrowth == 20
DefaultBeta == 5
SliderMin == 6
SliderMax == 30
LastOcfYear == 20

\* 1 + r for a rate r
OnePlus(r) == QFrac(RateScale + r, RateScale)

\* r / 2 for a rate r; the rates of the model are even numbers of 1/RateScale
HalfRate(r) == r \div 2

(***************************************************************************)
(* Python values of the provider's dictionary: a key is absent, or maps to *)
(* None or to a number.                                                    *)
(***************************************************************************)
Absent == [kind |-> "absent", v |-> 0]
None == [kind |-> "none", v |-> 0]
Num(n) == [kind |-> "num", v |-> n]

\* info.get(key, default)
DictGet(info, key, default) == IF info[key].kind = "absent" THEN default ELSE info[key]

\* "x and x > 0" for a value x read from the dictionary
TruthyPositive(x) == x.kind = "num" /\ x.v # 0 /\ x.v > 0

Event(kind, text) == [kind |-> kind, text |-> text]

(***************************************************************************)
(* Utility functions.  up is whether the provider fetch (stock.info)       *)
(* succeeds; a failed fetch raises inside the try block.                   *)
(***************************************************************************)
get_growth_rate(info, up) ==
  LET growth == DictGet(info, "earningsQuarterlyGrowth", None)
  IN IF up /\ TruthyPositive(growth)
       THEN [rate |-> growth.v, source |-> "Yahoo Finance"]
       ELSE [rate |-> DefaultGrowthRate, source |-> "Default"]

get_eps(info, up) ==
  LET eps == DictGet(info, "trailingEps", None)
  IN IF up /\ TruthyPositive(eps)
       THEN [eps |-> eps, source |-> "Yahoo Finance"]
       ELSE [eps |-> None, source |-> "Unavailable"]

\* get_beta with "beta >= 0" for "beta and beta > 0"
get_beta_accepts_zero(info, up) ==
  LET beta == DictGet(info, "beta", None)
  IN IF up /\ beta.kind = "num" /\ beta.v >= 0 THEN beta.v ELSE DefaultBeta

get_beta(info, up) ==
  LET beta == DictGet(info, "beta", None)
  IN IF up /\ TruthyPositive(beta) THEN beta.v ELSE DefaultBeta

\* RISK_FREE_RATE + beta * MARKET_RISK_PREMIUM, as a rate
DiscountRate(beta) == RISK_FREE_RATE + (beta * MARKET_RISK_PREMIUM) \div BetaScale

(***************************************************************************)
(* Valuation methods.  A call's outcome is a record: what it returns, the  *)
(* st.warning / st.error events it emits, the exception it caught (if any) *)
(* and the locals the claims look at.  A returned number is in hundredths  *)
(* (round(x, 2)).                                                          *)
(***************************************************************************)
NoList == [kind |-> "none", items |-> <<>>]
List(xs) == [kind |-> "list", items |-> xs]

\* growths[i] for a 0-based index i: IndexError past the end of the list
ListIndexOk(xs, i) == i < Len(xs)

\* lines 82: [eps * ((1 + growths[i]) ** (i + 1)) for i in range(FORECAST_YEARS)]
RECURSIVE EpsProjected(_, _, _, _)
EpsProjected(eps, growths, i, acc) ==
  IF i = FORECAST_YEARS THEN [raised |-> "", items |-> acc]
  ELSE IF ~ListIndexOk(growths, i) THEN [raised |-> "IndexError", items |-> <<>>]
  ELSE EpsProjected(eps, growths, i + 1,
         Append(acc, QMul(QOfInt(eps), QPow(OnePlus(growths[i + 1]), i + 1))))

\* line 83: [val / ((1 + discount_rate) ** (i + 1)) for i, val in enumerate(projected)]
EpsDiscounted(projected, discount_rate) ==
  IF OnePlus(discount_rate).s = 0 /\ projected # <<>>
    THEN [raised |-> "ZeroDivisionError", items |-> <<>>]
    ELSE [raised |-> "",
          items |-> [i \in 1..Len(projected) |->
                       QDiv(projected[i], QPow(OnePlus(discount_rate), i))]]

EpsReturn(ret, events, raised, projected, discounted, capped, capped_terminal, intrinsic) ==
  [ret |-> ret, events |-> events, raised |-> raised,
   projected |-> projected, discounted |-> discounted,
   capped |-> capped, capped_terminal |-> capped_terminal, intrinsic |-> intrinsic]

EpsRaised(name, projected, discounted) ==
  EpsReturn(None, <<Event("error", "EPS valuation failed")>>, name,
            projected, discounted, FALSE, EZero, EZero)

\* line 85: the terminal value, for discount_rate # TERMINAL_GROWTH_RATE
EpsTerminal(projected, discount_rate) ==
  QDiv(QMul(projected[Len(projected)], OnePlus(TERMINAL_GROWTH_RATE)),
       QFrac(discount_rate - TERMINAL_GROWTH_RATE, RateScale))

\* line 90: discounted_terminal / intrinsic > 0.6, for intrinsic # 0
OverCap(discounted_terminal, intrinsic) ==
  ESign(intrinsic) * ECmp(EMulQ(discounted_terminal, QOfInt(5)),
                          EMulQ(intrinsic, QOfInt(3))) > 0

\* line 94
EpsSuccess(projected, discounted, capped, capped_terminal, intrinsic) ==
  EpsReturn(Num(ERound2(intrinsic)), <<>>, "", projected, discounted,
            capped, capped_terminal, intrinsic)

\* lines 92-94, with capped_terminal = 0.6 * intrinsic of line 91
EpsCapped(projected, discounted, total, capped_terminal) ==
  EpsSuccess(projected, discounted, TRUE, capped_terminal, EAdd(total, capped_terminal))

\* lines 90-94, with intrinsic of line 88
EpsCap(projected, discounted, total, discounted_terminal, intrinsic) ==
  IF ESign(intrinsic) = 0 THEN EpsRaised("ZeroDivisionError", projected, discounted)
  ELSE IF OverCap(discounted_terminal, intrinsic)
    THEN EpsCapped(projected, discounted, total, EMulQ(intrinsic, QFrac(3, 5)))
  ELSE EpsSuccess(projected, discounted, FALSE, EZero, intrinsic)

\* line 88
EpsIntrinsic(projected, discounted, total, discounted_terminal) ==
  EpsCap(projected, discounted, total, discounted_terminal,
         EAdd(total, discounted_terminal))

\* lines 85-94, reached with the two lists built
EpsTerminalAndCap(projected, discounted, discount_rate) ==
  IF discount_rate = TERMINAL_GROWTH_RATE \/ OnePlus(discount_rate).s = 0
    THEN EpsRaised("ZeroDivisionError", projected, discounted)
    ELSE EpsIntrinsic(projected, discounted, ESum(discounted),
           EOfQ(QDiv(EpsTerminal(projected, discount_rate),
                     QPow(OnePlus(discount_rate), FORECAST_YEARS))))

\* line 81
EpsGrowths5(growth_rate) ==
  <<growth_rate, growth_rate, HalfRate(growth_rate), HalfRate(growth_rate),
    TERMINAL_GROWTH_RATE>>

\* lines 83-94, reached with the projected list built
EpsAfterProjected(projected, discounted, discount_rate) ==
  IF discounted.raised # "" THEN EpsRaised(discounted.raised, projected, <<>>)
  ELSE EpsTerminalAndCap(projected, discounted.items, discount_rate)

\* lines 81-94, reached with a positive EPS
EpsFromProjected(projected, discount_rate) ==
  IF projected.raised # "" THEN EpsRaised(projected.raised, <<>>, <<>>)
  ELSE EpsAfterProjected(projected.items,
                         EpsDiscounted(projected.items, discount_rate), discount_rate)

\* lines 77-94
EpsChecked(eps, discount_rate, growth_rate) ==
  IF eps.kind = "none" \/ eps.v <= 0
    THEN EpsReturn(None, <<Event("warning", "EPS unavailable")>>, "",
                   <<>>, <<>>, FALSE, EZero, EZero)
    ELSE EpsFromProjected(EpsProjected(eps.v, EpsGrowths5(growth_rate), 0, <<>>),
                          discount_rate)

\* lines 74-97
calculate_eps_valuation(info, up, discount_rate, growth_rate) ==
  EpsChecked(get_eps(info, up).eps, discount_rate, growth_rate)

\* GrowthForYear with "<" for "<=" at the regime boundaries
GrowthForYearEarly(year, growth_1_5, growth_6_10, growth_11_20) ==
  IF year < 5 THEN growth_1_5
  ELSE IF year < 10 THEN growth_6_10
  ELSE growth_11_20

\* lines 117-122: the growth rate the loop applies in a year
GrowthForYear(year, growth_1_5, growth_6_10, growth_11_20) ==
  IF year <= 5 THEN growth_1_5
  ELSE IF year <= 10 THEN growth_6_10
  ELSE growth_11_20

\* line 124
OcfProjected(ocf, growth, year) == QMul(QOfInt(ocf), QPow(OnePlus(growth), year))

\* lines 125-126, for 1 + discount_rate # 0
OcfDiscounted(projected, discount_rate, year) ==
  LET discount_factor == QDiv(QOne, QPow(OnePlus(discount_rate), year))
  IN QMul(projected, discount_factor)

\* lines 113-129: the loop over range(1, 21)
RECURSIVE OcfLoop(_, _, _, _, _, _)
OcfLoop(ocf, schedule, discount_rate, year, projected_ocf, discounted_ocf) ==
  IF year > LastOcfYear
    THEN [raised |-> "", projected |-> projected_ocf, discounted |-> discounted_ocf]
  ELSE IF OnePlus(discount_rate).s = 0
    THEN [raised |-> "ZeroDivisionError",
          projected |-> projected_ocf, discounted |-> discounted_ocf]
  ELSE
    LET growth == GrowthForYear(year, schedule[1], schedule[2], schedule[3])
        projected == OcfProjected(ocf, growth, year)
        discounted == OcfDiscounted(projected, discount_rate, year)
    IN OcfLoop(ocf, schedule, discount_rate, year + 1,
               Append(projected_ocf, projected), Append(discounted_ocf, discounted))

OcfReturn(val, projected, discounted, events, raised, schedule, divided, final) ==
  [val |-> val, projected |-> projected, discounted |-> discounted,
   events |-> events, raised |-> raised, schedule |-> schedule,
   divided |-> divided, final |-> final]

\* lines 146-148
OcfRaised(name, schedule, divided) ==
  OcfReturn(None, NoList, NoList, <<Event("error", "OCF-based valuation failed")>>,
            name, schedule, divided, EZero)

\* OcfInputsMissing without the checks of the share count
OcfInputsMissingOcfOnly(ocf, shares) == ocf.kind = "none" \/ ocf.v <= 0

\* lines 110-111: the guard on operating cash flow and shares outstanding
OcfInputsMissing(ocf, shares) ==
  ocf.kind = "none" \/ ocf.v <= 0 \/ shares.kind = "none" \/ shares.v <= 0

\* line 134-137: info.get(field, 0)
BalanceGet(info, field) == DictGet(info, field, Num(0))

\* line 144
OcfSuccess(schedule, projected_ocf, discounted_ocf, final_value) ==
  OcfReturn(Num(ERound2(final_value)), List(projected_ocf), List(discounted_ocf),
            <<>>, "", schedule, TRUE, final_value)

\* lines 139-142, for numbers
OcfFinalValue(intrinsic_per_share, shares, cash, short_term_investments, short_term_debt, long_term_debt) ==
  ESub(EAdd(intrinsic_per_share, EOfQ(QFrac(cash + short_term_investments, shares))),
       EOfQ(QFrac(short_term_debt + long_term_debt, shares)))

\* lines 134-144; None + x raises TypeError
OcfAdjust(shares, schedule, projected_ocf, discounted_ocf, intrinsic_per_share, cash, short_term_investments, short_term_debt, long_term_debt) ==
  IF \E x \in {cash, short_term_investments, short_term_debt, long_term_debt} :
       x.kind = "none"
    THEN OcfRaised("TypeError", schedule, TRUE)
    ELSE OcfSuccess(schedule, projected_ocf, discounted_ocf,
           OcfFinalValue(intrinsic_per_share, shares, cash.v, short_term_investments.v,
                         short_term_debt.v, long_term_debt.v))

\* lines 131-144, reached with the two lists built; total_value / shares
\* raises TypeError for None and ZeroDivisionError for 0
OcfPerShare(info, shares, schedule, projected_ocf, discounted_ocf) ==
  IF shares.kind = "none" THEN OcfRaised("TypeError", schedule, TRUE)
  ELSE IF shares.v = 0 THEN OcfRaised("ZeroDivisionError", schedule, TRUE)
  ELSE OcfAdjust(shares.v, schedule, projected_ocf, discounted_ocf,
                 EMulQ(ESum(discounted_ocf), QFrac(1, shares.v)),
                 BalanceGet(info, "cash"), BalanceGet(info, "shortTermInvestments"),
                 BalanceGet(info, "shortTermDebt"), BalanceGet(info, "longTermDebt"))

\* lines 113-144, reached past the guard of line 110
OcfAfterLoop(info, shares, schedule, loop) ==
  IF loop.raised # "" THEN OcfRaised(loop.raised, schedule, FALSE)
  ELSE OcfPerShare(info, shares, schedule, loop.projected, loop.discounted)

\* lines 108-144, reached with the growth schedule built
OcfChecked(info, discount_rate, schedule, ocf, shares) ==
  IF OcfInputsMissing(ocf, shares)
    THEN OcfReturn(None, NoList, NoList, <<>>, "", schedule, FALSE, EZero)
    ELSE OcfAfterLoop(info, shares, schedule,
                      OcfLoop(ocf.v, schedule, discount_rate, 1, <<>>, <<>>))

\* OcfSchedule without the halving of line 105
OcfScheduleFlat(growth_1_5) == <<growth_1_5, growth_1_5, TERMINAL_GROWTH_RATE>>

\* lines 104-106
OcfSchedule(growth_1_5) == <<growth_1_5, HalfRate(growth_1_5), TERMINAL_GROWTH_RATE>>

\* lines 104-144, reached with stock.info fetched; None / 2 raises TypeError
OcfFetched(info, discount_rate, growth_1_5) ==
  IF growth_1_5.kind = "none" THEN OcfRaised("TypeError", <<>>, FALSE)
  ELSE OcfChecked(info, discount_rate, OcfSchedule(growth_1_5.v),
                  DictGet(info, "operatingCashflow", None),
                  DictGet(info, "sharesOutstanding", None))

\* lines 99-148
calculate_ocf_based_intrinsic_value(info, up, discount_rate) ==
  IF ~up THEN OcfRaised("ProviderError", <<>>, FALSE)
  ELSE OcfFetched(info, discount_rate,
                  DictGet(info, "earningsQuarterlyGrowth", Num(OcfDefaultGrowth)))

(***************************************************************************)
(* Inputs.  The provider's answer for the ticker is fixed for a run; each  *)
(* fetch of it may fail on its own.                                        *)
(***************************************************************************)
MaxGrowth == 3
MaxBeta == 2
MaxSliderPos == 2
MaxEpsRate == 2

BalanceFields == {"cash", "shortTermInvestments", "shortTermDebt", "longTermDebt"}

\* quarterly earnings growth: -0.05, 0, 0.05, 0.10, ... (even numbers of 1/RateScale)
GrowthField == {Absent, None} \cup {Num(10 * k) : k \in -1..MaxGrowth}

\* beta: 0, -1.0, 0.6, 1.2, ... and 5.0, whose discount rate lies above the slider
BetaField == {Absent, None, Num(0), Num(-5), Num(25)} \cup {Num(3 * k) : k \in 1..MaxBeta}

EpsField == {Absent, None, Num(0), Num(-2), Num(5)}
OcfField == {Absent, None, Num(0), Num(-100), Num(100)}
SharesField == {Absent, None, Num(0), Num(-10), Num(3)}

BaseInfo ==
  [earningsQuarterlyGrowth |-> Absent, trailingEps |-> Absent, beta |-> Absent,
   operatingCashflow |-> Num(100), sharesOutstanding |-> Num(3),
   cash |-> Num(30), shortTermInvestments |-> Num(15),
   shortTermDebt |-> Num(20), longTermDebt |-> Num(45)]

\* the growth, cash flow and share count the valuation reads, in every combination
ScheduleInfos ==
  {[BaseInfo EXCEPT !.earningsQuarterlyGrowth = g, !.operatingCashflow = o,
                    !.sharesOutstanding = sh] :
     g \in GrowthField, o \in OcfField, sh \in SharesField}

\* every subset of the balance-sheet keys present, the others absent
BalanceInfos ==
  {[BaseInfo EXCEPT !.operatingCashflow = o, !.sharesOutstanding = sh,
                    !.cash = IF "cash" \in present THEN Num(30) ELSE Absent,
                    !.shortTermInvestments =
                        IF "shortTermInvestments" \in present THEN Num(15) ELSE Absent,
                    !.shortTermDebt =
                        IF "shortTermDebt" \in present THEN Num(20) ELSE Absent,
                    !.longTermDebt =
                        IF "longTermDebt" \in present THEN Num(45) ELSE Absent] :
     o \in OcfField, sh \in SharesField, present \in SUBSET BalanceFields}

\* the fundamentals the resolvers read, in every combination
ResolverInfos ==
  {[BaseInfo EXCEPT !.beta = b, !.trailingEps = e] : b \in BetaField, e \in EpsField}

\* a balance-sheet key that is present and maps to None
NullBalanceInfos == {[BaseInfo EXCEPT ![f] = None] : f \in BalanceFields}

Infos == ScheduleInfos \cup BalanceInfos \cup ResolverInfos \cup NullBalanceInfos

\* the positions of the slider the model tries: 0.03, 0.035, ... and its default
SliderChoices(default) ==
  {r \in {SliderMin + k : k \in 0..MaxSliderPos} : r <= SliderMax} \cup {default}

\* the arguments of a direct call of calculate_eps_valuation
EpsRates == {SliderMin + 2 * k : k \in 0..MaxEpsRate}
EpsGrowths == {10, 20}

VARIABLES
  info,                      \* stock.info, the provider's dictionary
  pc,                        \* the position of the script, or of the direct call
  growth_rate, source,       \* line 159
  beta,                      \* line 160
  beta_up,                   \* whether the fetch of line 40 succeeded
  calculated_discount_rate,  \* line 161
  custom_rate,               \* line 174
  ocf_call,                  \* the outcome of line 188
  eps_call,                  \* a direct call of calculate_eps_valuation
  page                       \* what the script has put on the page, in order

vars == <<info, pc, growth_rate, source, beta, beta_up, calculated_discount_rate,
          custom_rate, ocf_call, eps_call, page>>

NoOcfCall == OcfReturn(None, NoList, NoList, <<>>, "", <<>>, FALSE, EZero)
NoEpsCall ==
  [up |-> FALSE, discount_rate |-> 0, growth_rate |-> 0,
   out |-> EpsReturn(None, <<>>, "", <<>>, <<>>, FALSE, EZero, EZero)]

Init ==
  /\ info \in Infos
  /\ pc = "idle"
  /\ growth_rate = 0
  /\ source = ""
  /\ beta = 0
  /\ beta_up = FALSE
  /\ calculated_discount_rate = 0
  /\ custom_rate = 0
  /\ ocf_call = NoOcfCall
  /\ eps_call = NoEpsCall
  /\ page = <<>>

\* lines 154-158: the ticker box; an empty ticker ends the script
EnterTicker(entered) ==
  /\ pc = "idle"
  /\ pc' = IF entered THEN "growth" ELSE "no_ticker"
  /\ UNCHANGED <<info, growth_rate, source, beta, beta_up, calculated_discount_rate,
                 custom_rate, ocf_call, eps_call, page>>

\* line 159
ResolveGrowth(up) ==
  /\ pc = "growth"
  /\ growth_rate' = get_growth_rate(info, up).rate
  /\ source' = get_growth_rate(info, up).source
  /\ pc' = "beta"
  /\ UNCHANGED <<info, beta, beta_up, calculated_discount_rate, custom_rate,
                 ocf_call, eps_call, page>>

\* lines 160-172
ResolveBeta(up) ==
  /\ pc = "beta"
  /\ beta' = get_beta(info, up)
  /\ beta_up' = up
  /\ calculated_discount_rate' = DiscountRate(get_beta(info, up))
  /\ page' = page \o <<Event("write", "Using growth rate"),
                       Event("write", "Discount Rate Details")>>
  /\ pc' = "slider"
  /\ UNCHANGED <<info, growth_rate, source, custom_rate, ocf_call, eps_call>>

\* lines 174-180.  value = round(calculated_discount_rate, 3) is the
\* calculated rate itself, a multiple of 0.005; st.slider raises when it
\* lies outside [min_value, max_value], which ends the script.
Slider(choice) ==
  /\ pc = "slider"
  /\ IF calculated_discount_rate < SliderMin \/ calculated_discount_rate > SliderMax
       THEN /\ pc' = "crashed"
            /\ page' = Append(page, Event("exception", "StreamlitAPIException"))
            /\ UNCHANGED custom_rate
       ELSE /\ choice \in SliderChoices(calculated_discount_rate)
            /\ custom_rate' = choice
            /\ pc' = "preview"
            /\ UNCHANGED page
  /\ UNCHANGED <<info, growth_rate, source, beta, beta_up, calculated_discount_rate,
                 ocf_call, eps_call>>

\* line 182: preview_data fetches outside any try block
Preview(up) ==
  /\ pc = "preview"
  /\ IF up
       THEN /\ pc' = "valuation"
            /\ page' = Append(page, Event("write", "Data Preview"))
       ELSE /\ pc' = "crashed"
            /\ page' = Append(page, Event("exception", "ProviderError"))
  /\ UNCHANGED <<info, growth_rate, source, beta, beta_up, calculated_discount_rate,
                 custom_rate, ocf_call, eps_call>>

\* "if ocf_val:" for the value a call returned
Truthy(val) == val.kind = "num" /\ val.v # 0

\* lines 188-204
Valuation(up) ==
  /\ pc = "valuation"
  /\ LET call == calculate_ocf_based_intrinsic_value(info, up, custom_rate)
     IN /\ ocf_call' = call
        /\ page' = page \o call.events \o
                     (IF Truthy(call.val)
                        THEN <<Event("write", "Intrinsic Value (OCF-based)"),
                               Event("pyplot", "Projected vs Discounted OCF")>>
                        ELSE <<>>)
  /\ pc' = "done"
  /\ UNCHANGED <<info, growth_rate, source, beta, beta_up, calculated_discount_rate,
                 custom_rate, eps_call>>

\* a caller of calculate_eps_valuation (the script's own call, lines
\* 184-186, is commented out)
CallEps(up, discount_rate, rate) ==
  /\ pc = "idle"
  /\ LET call == calculate_eps_valuation(info, up, discount_rate, rate)
     IN /\ eps_call' = [up |-> up, discount_rate |-> discount_rate,
                        growth_rate |-> rate, out |-> call]
        /\ page' = page \o call.events
  /\ pc' = "eps_done"
  /\ UNCHANGED <<info, growth_rate, source, beta, beta_up, calculated_discount_rate,
                 custom_rate, ocf_call>>

Next ==
  \/ \E entered \in BOOLEAN : EnterTicker(entered)
  \/ \E up \in BOOLEAN : ResolveGrowth(up)
  \/ \E up \in BOOLEAN : ResolveBeta(up)
  \/ \E choice \in SliderMin..SliderMax : Slider(choice)
  \/ \E up \in BOOLEAN : Preview(up)
  \/ \E up \in BOOLEAN : Valuation(up)
  \/ \E up \in BOOLEAN, d \in EpsRates, g \in EpsGrowths : CallEps(up, d, g)

Spec == Init /\ [][Next]_vars

(***************************************************************************)
(* Properties.                                                             *)
(***************************************************************************)
OcfReturned == pc = "done"
EpsReturned == pc = "eps_done"

\* a warning, an error or an uncaught exception is among the events
Reported(events) ==
  \E i \in 1..Len(events) : events[i].kind \in {"warning", "error", "exception"}

\* the provider's value for the field is a number above zero
FieldPositive(field) == info[field].kind = "num" /\ info[field].v > 0

\* the EPS call saw a positive EPS and a discount rate above terminal growth
EpsCallValid ==
  /\ EpsReturned
  /\ eps_call.up
  /\ FieldPositive("trailingEps")
  /\ eps_call.discount_rate > TERMINAL_GROWTH_RATE

\* C1: every valuation call, EPS-based or OCF-based, whose discount rate is
\* at most the terminal growth rate 0.04 is aborted with a reported error
\* and returns no numeric intrinsic value.
C1_DomainErrorReported ==
  /\ (OcfReturned /\ custom_rate <= TERMINAL_GROWTH_RATE)
       => (ocf_call.val.kind = "none" /\ Reported(ocf_call.events))
  /\ (EpsReturned /\ eps_call.discount_rate <= TERMINAL_GROWTH_RATE)
       => (eps_call.out.ret.kind = "none" /\ Reported(eps_call.out.events))

\* C2: an EPS-based call with a positive EPS and a discount rate above 0.04
\* reaches the cap of line 90, and whenever the discounted terminal value
\* exceeds 0.6 of the naive intrinsic value the capped terminal is 0.6 of
\* the intrinsic value the call returns.
C2_CapIsFixedPoint ==
  EpsCallValid =>
    /\ eps_call.out.raised = ""
    /\ eps_call.out.capped =>
         ECmp(eps_call.out.capped_terminal,
              EMulQ(eps_call.out.intrinsic, QFrac(3, 5))) = 0

\* C3: an EPS-based call with a positive EPS and a discount rate above 0.04
\* builds 20 projected and 20 discounted values from its 5-entry growth list
\* and returns a numeric intrinsic value.
C3_EpsProjectsTwentyYears ==
  EpsCallValid =>
    /\ Len(eps_call.out.projected) = FORECAST_YEARS
    /\ Len(eps_call.out.discounted) = FORECAST_YEARS
    /\ eps_call.out.ret.kind = "num"

\* C4: the near-term growth rate of the OCF-based valuation (years 1-5,
\* halved for years 6-10) is the growth resolver's result for the same
\* fundamentals: the provider's ratio when present and above zero, 0.10
\* otherwise; a null or non-positive provider value never fails the call.
C4_GrowthFromResolver ==
  (OcfReturned /\ ocf_call.raised # "ProviderError") =>
    /\ Len(ocf_call.schedule) = 3
    /\ ocf_call.schedule[1] = get_growth_rate(info, TRUE).rate
    /\ 2 * ocf_call.schedule[2] = ocf_call.schedule[1]

\* C5: an OCF-based call whose operating cash flow or share count is missing
\* or not above zero, or whose fetch fails, returns None for the value and
\* both lists, and no division by the share count was attempted.
C5_MissingInputsNoResult ==
  (OcfReturned /\ (\/ ocf_call.raised = "ProviderError"
                   \/ ~FieldPositive("operatingCashflow")
                   \/ ~FieldPositive("sharesOutstanding"))) =>
    /\ ocf_call.val = None
    /\ ocf_call.projected = NoList
    /\ ocf_call.discounted = NoList
    /\ ~ocf_call.divided

C5_Witness ==
  /\ OcfReturned
  /\ info.sharesOutstanding = Absent
  /\ FieldPositive("operatingCashflow")
  /\ ocf_call.raised = ""
  /\ ocf_call.val = None

\* the value of a balance-sheet field, 0 when the key is absent
FieldOrZero(field) == IF info[field].kind = "num" THEN info[field].v ELSE 0

\* the near-term rate of the OCF-based valuation: the provider's ratio, 0.10
\* when the key is absent
NearTermRate ==
  IF info.earningsQuarterlyGrowth.kind = "num"
    THEN info.earningsQuarterlyGrowth.v ELSE (10 * RateScale) \div 100

\* the growth rate of year t: near-term, half of it, terminal
RegimeRate(t) ==
  IF t \in 1..5 THEN NearTermRate
  ELSE IF t \in 6..10 THEN NearTermRate \div 2
  ELSE TERMINAL_GROWTH_RATE

\* ocf * (1 + g_t)^t
ClaimedProjected(t) ==
  QMul(QOfInt(info.operatingCashflow.v),
       QPow(QFrac(RateScale + RegimeRate(t), RateScale), t))

\* projected * (1 + discountRate)^-t
ClaimedDiscounted(projected, t) ==
  QMul(projected, QInv(QPow(QFrac(RateScale + custom_rate, RateScale), t)))

ClaimedPerShare ==
  LET sh == info.sharesOutstanding.v
      rows == [t \in 1..20 |-> ClaimedDiscounted(ClaimedProjected(t), t)]
      cash == FieldOrZero("cash") + FieldOrZero("shortTermInvestments")
      debt == FieldOrZero("shortTermDebt") + FieldOrZero("longTermDebt")
  IN ESub(EAdd(EMulQ(ESum(rows), QFrac(1, sh)), EOfQ(QFrac(cash, sh))),
          EOfQ(QFrac(debt, sh)))

\* C6: an OCF-based call with operating cash flow and share count above
\* zero returns, whichever balance-sheet keys are absent, the number
\* sum(discounted)/shares + (cash + investments)/shares - (debt)/shares
\* (to the cent, as line 144 rounds it), each absent field taken as 0.
C6_PerShareValue ==
  (/\ OcfReturned
   /\ ocf_call.raised # "ProviderError"
   /\ FieldPositive("operatingCashflow")
   /\ FieldPositive("sharesOutstanding")
   /\ \A f \in BalanceFields : info[f].kind # "none") =>
    /\ ocf_call.val.kind = "num"
    /\ ocf_call.val.v = ERound2(ClaimedPerShare)

\* C7: a successful OCF-based call returns 20 projected and 20 discounted
\* entries with projected[t] = ocf * (1 + g_t)^t, g_t the near-term rate for
\* t <= 5, half of it for 6 <= t <= 10 and 0.04 from t = 11 on, and
\* discounted[t] = projected[t] * (1 + discountRate)^-t.
C7_ProjectionRows ==
  (OcfReturned /\ ocf_call.val.kind = "num") =>
    /\ ocf_call.projected.kind = "list"
    /\ ocf_call.discounted.kind = "list"
    /\ Len(ocf_call.projected.items) = 20
    /\ Len(ocf_call.discounted.items) = 20
    /\ \A t \in 1..20 :
         /\ ocf_call.projected.items[t] = ClaimedProjected(t)
         /\ ocf_call.discounted.items[t] =
              ClaimedDiscounted(ocf_call.projected.items[t], t)

C7_Witness ==
  /\ OcfReturned
  /\ ocf_call.val.kind = "num"
  /\ info.earningsQuarterlyGrowth = Num(10)
  /\ custom_rate = SliderMin + 1

BetaResolved == pc \in {"slider", "preview", "valuation", "done", "crashed"}

\* C8: with beta absent, null, zero or negative, or its fetch failed, the
\* beta used is exactly 1.0 and the derived rate 0.045 + 1.0 * 0.025; with
\* a fetched beta above zero the beta used is the provider's and the
\* derived rate is 0.045 + beta * 0.025.
C8_BetaFallback ==
  BetaResolved =>
    /\ (~FieldPositive("beta") \/ ~beta_up) =>
         /\ beta = BetaScale
         /\ calculated_discount_rate = RISK_FREE_RATE + MARKET_RISK_PREMIUM
    /\ (FieldPositive("beta") /\ beta_up) =>
         /\ beta = info.beta.v
         /\ calculated_discount_rate * BetaScale
              = RISK_FREE_RATE * BetaScale + info.beta.v * MARKET_RISK_PREMIUM

C8_Witness ==
  /\ pc = "slider"
  /\ info.beta = Num(0)
  /\ beta_up
  /\ beta = BetaScale
  /\ calculated_discount_rate = RISK_FREE_RATE + MARKET_RISK_PREMIUM

\* C9: a valuation call that yields no numeric result leaves a warning or an
\* error on the page.
C9_FailureIsSurfaced ==
  /\ (OcfReturned /\ ocf_call.val.kind # "num") => Reported(page)
  /\ (EpsReturned /\ eps_call.out.ret.kind # "num") => Reported(page)

ScheduleBuilt == OcfReturned /\ Len(ocf_call.schedule) = 3

\* C10 as stated: every schedule the OCF-based valuation builds is
\* non-increasing across the regime boundaries and ends at 0.04.
C10_NonIncreasing ==
  ScheduleBuilt =>
    /\ ocf_call.schedule[1] >= ocf_call.schedule[2]
    /\ ocf_call.schedule[2] >= ocf_call.schedule[3]
    /\ ocf_call.schedule[3] = TERMINAL_GROWTH_RATE

\* C10 amended: every schedule the OCF-based valuation builds ends at 0.04
\* and has half the near-term rate in years 6-10; it is non-increasing
\* across both boundaries exactly when the near-term rate is at least 0.08.
C10_ScheduleShape ==
  ScheduleBuilt =>
    /\ ocf_call.schedule[3] = TERMINAL_GROWTH_RATE
    /\ 2 * ocf_call.schedule[2] = ocf_call.schedule[1]
    /\ (/\ ocf_call.schedule[1] >= ocf_call.schedule[2]
        /\ ocf_call.schedule[2] >= ocf_call.schedule[3])
         <=> (ocf_call.schedule[1] >= 2 * TERMINAL_GROWTH_RATE)

C10_Witness ==
  /\ ScheduleBuilt
  /\ info.earningsQuarterlyGrowth = Num(10)
  /\ ocf_call.schedule = <<10, 5, TERMINAL_GROWTH_RATE>>
====
